---- MODULE Spec2Model ----
(***************************************************************************)
(* A model of the ledger core of libchain: blockchain.py (Chain, Node) and *)
(* library.py (Library), with the handlers of app.py that call them.       *)
(*                                                                         *)
(* Python values are represented as follows.                               *)
(*   dict      a sequence of <<key, value>> pairs with distinct keys, in   *)
(*             insertion order (Python dicts keep insertion order)         *)
(*   None      as a value of a block field: the string "None";             *)
(*             as an optional argument: the empty option <<>>, a given     *)
(*             argument x being <<x>>                                      *)
(*   int n     in the previous_hash field: <<"int", n>>, so that it can be *)
(*             compared with a digest, as Python compares 1 != 'ab12..'    *)
(*   digest    <<"sha256", s>> for the serialization s that was hashed:    *)
(*             SHA-256 is taken to be collision free                       *)
(*   timestamp the string strftime produced                                *)
(***************************************************************************)
EXTENDS Integers, Sequences, FiniteSets, TLC

\* ------------------------------------------------------------------ bounds

\* The largest number of blocks, over all chains, a Library is grown to.
MaxBlocks == 3

\* The longest block sequence valid_chain is given.
MaxChainLen == 3

\* The largest number of fields mutated in a sequence given to valid_chain.
MaxMutations == 1

\* ------------------------------------------------------------ sample values

Ids == {"book-1", "book-2"}

Addrs == {"A", "B", "C"}

None == "None"

\* strftime('%Y-%m-%d %H:%M:%S') of the clock: the calls of a run are made
\* within one second, a block mutated after the fact can carry a later one
Timestamps == {"2020-01-01 00:00:00"}

LaterTimestamp == "2020-01-01 00:00:01"

PrivKeys == {"kA", "kB"}

\* the private keys the signatures of the requests are made with
Signers == {"kA"}

\* ------------------------------------------------------------- Python dict

Absent == <<>>

Some(x) == <<x>>

Keys(d) == {d[i][1] : i \in DOMAIN d}

\* d[k], for a key the dict has
Item(d, k) == d[CHOOSE i \in DOMAIN d : d[i][1] = k][2]

\* d.get(k)
Get(d, k) == IF k \in Keys(d) THEN Item(d, k) ELSE None

\* {**h, **d}: the keys of h keep their place and take d's value, the other
\* keys of d follow in d's order
Merge(h, d) ==
    [i \in 1..Len(h) |-> IF h[i][1] \in Keys(d) THEN <<h[i][1], Item(d, h[i][1])>> ELSE h[i]]
        \o SelectSeq(d, LAMBDA p : p[1] \notin Keys(h))

\* `if x:` for an optional dict argument: None and {} are both falsy
Truthy(opt) == opt # Absent /\ opt[1] # <<>>

\* ------------------------------------------------------------- Chain.hash

\* the keys a block can have, in the order sort_keys puts them
KeyOrder == <<"index", "previous_hash", "pubkey", "recipient", "sender", "timestamp", "txsig">>

\* dumps_sorted gone wrong: sort_keys is left out, the items keep the order
\* they were inserted in.
dumps_insertion_order(block) == block

\* json.dumps(block, sort_keys=True): the items of the dict ordered by key
dumps_sorted(block) ==
    LET present == SelectSeq(KeyOrder, LAMBDA k : k \in Keys(block))
    IN  [i \in 1..Len(present) |-> <<present[i], Item(block, present[i])>>]

hash(block) == <<"sha256", dumps_sorted(block)>>

\* ------------------------------------------------------------------ Chain

\* the sentinel Chain.__init__ passes as the genesis block's previous_hash
GENESIS_SENTINEL == <<"int", 1>>

\* `previous_hash or ...`: 0 is the falsy int, a digest is a non-empty string
TruthyHash(h) == h # <<"int", 0>>

last_block(self) == self.chain[Len(self.chain)]

new_block_header(self, previous_hash, now) ==
    << <<"index", Len(self.chain) + 1>>,
       <<"previous_hash", IF TruthyHash(previous_hash) THEN previous_hash
                          ELSE hash(last_block(self))>>,
       <<"timestamp", now>> >>

\* new_block_append gone wrong: the new block takes the last block's place.
new_block_overwrite(self, block) ==
    [self EXCEPT !.chain = IF Len(@) = 0 THEN <<block>> ELSE [@ EXCEPT ![Len(@)] = block]]

new_block_append(self, block) == [self EXCEPT !.chain = Append(@, block)]

\* Chain.new_block. `block` is bound only under `if data:`, so a call without
\* data raises UnboundLocalError at the append and leaves the chain as it was.
new_block(self, previous_hash, data, now) ==
    IF Truthy(data)
    THEN [raised |-> FALSE,
          self |-> new_block_append(self, Merge(new_block_header(self, previous_hash, now), data[1]))]
    ELSE [raised |-> TRUE, self |-> self]

\* Chain.__init__
Chain_init(id, data, exported, now) ==
    LET self == [id |-> id, chain |-> <<>>]
    IN  IF Truthy(exported)
        THEN [raised |-> FALSE, self |-> [self EXCEPT !.chain = <<exported[1]>>]]
        ELSE new_block(self, GENESIS_SENTINEL, data, now)

\* ------------------------------------------------------------------- Node

AUTH_MESSAGE == "I have authorized this transaction."

\* the DER serialization of the public key of a private key
public_key(priv) == <<"pub", priv>>

\* an ECDSA signature of a message: what verification accepts is a signature
\* made with the private key of the public key, over the same message
sign(priv, message) == <<"sig", priv, message>>

verify(pubkey, signature, message) ==
    \E priv \in PrivKeys : pubkey = public_key(priv) /\ signature = sign(priv, message)

\* Node.verify_block
verify_block(block) == verify(Item(block, "pubkey"), Item(block, "txsig"), AUTH_MESSAGE)

\* ---------------------------------------------------------------- Library

\* add_book gone wrong: the duplicate check is left out.
add_book_nocheck(library_, new_book) ==
    [ret |-> TRUE, library |-> Append(library_, new_book)]

\* Library.add_book
add_book(library_, new_book) ==
    IF \E i \in DOMAIN library_ : library_[i].id = new_book.id
    THEN [ret |-> FALSE, library |-> library_]
    ELSE [ret |-> TRUE, library |-> Append(library_, new_book)]

\* Library.fetch_book: the position of the first book with the id, 0 for None
fetch_book(library_, req) ==
    IF \E i \in DOMAIN library_ : library_[i].id = req
    THEN CHOOSE i \in DOMAIN library_ :
             /\ library_[i].id = req
             /\ \A j \in 1..(i - 1) : library_[j].id # req
    ELSE 0

\* is_self_transfer gone wrong: the check is left out.
is_self_transfer_never(data) == FALSE

\* create_exchange, line 51
is_self_transfer(data) == data.sender = data.recipient

\* exchange_matches gone wrong: the custody check is left out.
exchange_matches_id_only(book, data) == book.id = data.book_id

\* exchange_holder gone wrong: the holder is read from the genesis block.
exchange_holder_genesis(book) == Get(book.chain[1], "recipient")

\* create_exchange, line 55: book.last_block.get('recipient')
exchange_holder(book) == Get(last_block(book), "recipient")

\* exchange_matches gone wrong: the id of the book is not compared.
exchange_matches_holder_only(book, data) == exchange_holder(book) = data.sender

\* create_exchange, line 55
exchange_matches(book, data) ==
    book.id = data.book_id /\ exchange_holder(book) = data.sender

\* exchange_payload gone wrong: the two parties are stored in each other's
\* field.
exchange_payload_swapped(data) ==
    << <<"sender", data.recipient>>, <<"recipient", data.sender>>,
       <<"pubkey", data.pubkey>>, <<"txsig", data.txsig>> >>

\* create_exchange, lines 56-61
exchange_payload(data) ==
    << <<"sender", data.sender>>, <<"recipient", data.recipient>>,
       <<"pubkey", data.pubkey>>, <<"txsig", data.txsig>> >>

\* exchange_previous_hash gone wrong: the first block is hashed.
exchange_previous_hash_first(book) == hash(book.chain[1])

\* create_exchange, line 63
exchange_previous_hash(book) == hash(last_block(book))

\* Library.create_exchange
create_exchange(library_, data, now) ==
    IF is_self_transfer(data)
    THEN [ret |-> FALSE, library |-> library_]
    ELSE IF \E i \in DOMAIN library_ : exchange_matches(library_[i], data)
         THEN LET i == CHOOSE i \in DOMAIN library_ :
                           /\ exchange_matches(library_[i], data)
                           /\ \A j \in 1..(i - 1) : ~exchange_matches(library_[j], data)
                  book == library_[i]
              IN  [ret |-> TRUE,
                   library |-> [library_ EXCEPT ![i] =
                       new_block(book, exchange_previous_hash(book),
                                 Some(exchange_payload(data)), now).self]]
         ELSE [ret |-> FALSE, library |-> library_]

\* ------------------------------------------------------------------ state

VARIABLES
    library,    \* Library._library: the list of Chain objects, [id, chain]
    call,       \* the last call made on the Library and what it returned
    threads,    \* the requests being served concurrently, each with its locals
    v_pc,       \* valid_chain: where its caller and its loop are
    v_chain,    \* valid_chain: the argument `chain`
    v_orig,     \* the block sequence v_chain was before any block was mutated
    v_last_block,       \* valid_chain: the local last_block
    v_current_index,    \* valid_chain: the local current_index
    v_mutations,        \* how many times a block of v_chain was mutated
    v_ret,      \* valid_chain: what the call returned or raised
    f_in,       \* the arguments of the function being called on its own
    f_out,      \* what that call returned or raised; <<>> until it is made
    peer_library    \* Library._library of the neighbour the node posts to

vars == <<library, call, threads, v_pc, v_chain, v_orig, v_last_block, v_current_index, v_mutations, v_ret,
          f_in, f_out, peer_library>>

seq_vars == <<library, call>>

conc_vars == <<threads>>

valid_vars == <<v_pc, v_chain, v_orig, v_last_block, v_current_index, v_mutations, v_ret>>

fn_vars == <<f_in, f_out>>

net_vars == <<peer_library>>

\* ----------------------------------------------------------------- inputs

\* the genesis payload app.new_book gives a chain, for each creator's address
GenesisPayloads == {<< <<"sender", None>>, <<"recipient", a>> >> : a \in Addrs}

\* the `data` arguments of Chain(): left out, empty, or a genesis payload
DataInputs == {Absent, Some(<<>>)} \cup {Some(p) : p \in GenesisPayloads}

\* the genesis blocks a peer exports: the block of a chain a peer constructed
ExportedBlocks ==
    {Chain_init("peer", Some(p), Absent, now).self.chain[1] : p \in GenesisPayloads, now \in Timestamps}

\* the `data` arguments of create_exchange
ExchangeInputs ==
    [book_id : Ids, sender : Addrs, recipient : Addrs,
     pubkey : {public_key(k) : k \in PrivKeys},
     txsig : {sign(k, AUTH_MESSAGE) : k \in Signers}]

RECURSIVE TotalBlocks(_)
TotalBlocks(library_) ==
    IF library_ = <<>> THEN 0
    ELSE Len(library_[1].chain) + TotalBlocks(Tail(library_))

NoCall == [op |-> "none", arg |-> <<>>, raised |-> FALSE, ret |-> FALSE]

ThreadIds == {1, 2}

IdleThread == [pc |-> "idle"]

IdleValidator ==
    /\ v_pc = "idle"
    /\ v_chain = <<>>
    /\ v_orig = <<>>
    /\ v_last_block = <<>>
    /\ v_current_index = 0
    /\ v_mutations = 0
    /\ v_ret = <<>>

NoFunction == f_in = <<>> /\ f_out = <<>>

\* the neighbour starts as the node does: library = Library()
NoPeerBooks == peer_library = <<>>

\* ---------------------------------------------- the Library, call by call

Init ==
    /\ library = <<>>
    /\ call = NoCall
    /\ threads = [t \in ThreadIds |-> IdleThread]
    /\ IdleValidator
    /\ NoFunction
    /\ NoPeerBooks

\* library.add_book(book) for a book the caller has constructed
AddBookCall(op, made) ==
    IF made.raised
    THEN /\ call' = [op |-> "Chain", arg |-> made.self, raised |-> TRUE, ret |-> FALSE]
         /\ UNCHANGED library
    ELSE LET r == add_book(library, made.self)
         IN  /\ TotalBlocks(r.library) <= MaxBlocks
             /\ library' = r.library
             /\ call' = [op |-> op, arg |-> made.self, raised |-> FALSE, ret |-> r.ret]

\* library.add_book(Chain(id=id, data=data)), as app.new_book does
NewBook ==
    /\ \E id \in Ids, data \in DataInputs, now \in Timestamps :
           AddBookCall("add_book", Chain_init(id, data, Absent, now))
    /\ UNCHANGED <<conc_vars, valid_vars, fn_vars, net_vars>>

\* library.add_book(Chain(id=id, exported=block)), as app.broadcast_book does
ImportBook ==
    /\ \E id \in Ids, block \in ExportedBlocks, now \in Timestamps :
           AddBookCall("add_book", Chain_init(id, Absent, Some(block), now))
    /\ UNCHANGED <<conc_vars, valid_vars, fn_vars, net_vars>>

\* library.create_exchange(data)
CreateExchange ==
    /\ \E data \in ExchangeInputs, now \in Timestamps :
           LET r == create_exchange(library, data, now)
           IN  /\ TotalBlocks(r.library) <= MaxBlocks
               /\ library' = r.library
               /\ call' = [op |-> "create_exchange", arg |-> data, raised |-> FALSE, ret |-> r.ret]
    /\ UNCHANGED <<conc_vars, valid_vars, fn_vars, net_vars>>

Next == NewBook \/ ImportBook \/ CreateExchange

Spec == Init /\ [][Next]_vars

\* ------------------------------------- the Library, requests interleaved
\* The handlers of app.py run on the threads of the server; no lock guards the
\* Library, so a thread can be preempted between any two reads or writes of
\* the shared lists. One step is one access to Library._library or to a
\* chain's list, with the thread-local work that follows it.

ConcIds == {"book-1"}

\* the chain new_book constructs: the node creates books for its own address
ConcNewBooks ==
    {Chain_init(id, Some(<< <<"sender", None>>, <<"recipient", "A">> >>), Absent, now).self :
         id \in ConcIds, now \in Timestamps}

ConcExchangeInputs ==
    {d \in ExchangeInputs :
         d.book_id \in ConcIds /\ verify(d.pubkey, d.txsig, AUTH_MESSAGE)}

InFlight == Cardinality({t \in ThreadIds : threads[t].pc \notin {"idle", "done"}})

CanStart(t) ==
    /\ threads[t].pc \in {"idle", "done"}
    /\ TotalBlocks(library) + InFlight < MaxBlocks

Returned(op, arg, ret) == [pc |-> "done", op |-> op, arg |-> arg, ret |-> ret]

\* app.new_book, lines 33-38: the chain is constructed, add_book is entered
StartAddBook(t) ==
    /\ CanStart(t)
    /\ \E new_book \in ConcNewBooks :
           threads' = [threads EXCEPT ![t] = [pc |-> "add_loop", new_book |-> new_book, i |-> 0]]
    /\ UNCHANGED <<seq_vars, valid_vars, fn_vars, net_vars>>

\* add_book, lines 24-26: one turn of the loop over self._library
AddBookLoop(t) ==
    /\ threads[t].pc = "add_loop"
    /\ LET th == threads[t]
       IN  IF th.i < Len(library)
           THEN IF library[th.i + 1].id = th.new_book.id
                THEN threads' = [threads EXCEPT ![t] = Returned("add_book", th.new_book, FALSE)]
                ELSE threads' = [threads EXCEPT ![t].i = th.i + 1]
           ELSE threads' = [threads EXCEPT ![t] = [pc |-> "add_append", new_book |-> th.new_book]]
    /\ UNCHANGED <<seq_vars, valid_vars, fn_vars, net_vars>>

\* add_book, lines 28-29; the caller keeps its reference to the chain, which
\* is now the last of the list
AddBookAppend(t) ==
    /\ threads[t].pc = "add_append"
    /\ library' = Append(library, threads[t].new_book)
    /\ threads' = [threads EXCEPT ![t] =
           Returned("add_book", threads[t].new_book, TRUE) @@ [book |-> Len(library) + 1]]
    /\ UNCHANGED <<call, valid_vars, fn_vars, net_vars>>

\* create_exchange, lines 51-52
StartExchange(t) ==
    /\ CanStart(t)
    /\ \E data \in ConcExchangeInputs :
           threads' = [threads EXCEPT ![t] =
               IF is_self_transfer(data)
               THEN Returned("create_exchange", data, FALSE)
               ELSE [pc |-> "ex_loop", data |-> data, i |-> 0]]
    /\ UNCHANGED <<seq_vars, valid_vars, fn_vars, net_vars>>

\* create_exchange, lines 54-55 and 67: one turn of the loop over self._library
ExchangeLoop(t) ==
    /\ threads[t].pc = "ex_loop"
    /\ LET th == threads[t]
       IN  IF th.i < Len(library)
           THEN IF exchange_matches(library[th.i + 1], th.data)
                THEN threads' = [threads EXCEPT ![t] =
                         [pc |-> "ex_hash", data |-> th.data, book |-> th.i + 1]]
                ELSE threads' = [threads EXCEPT ![t].i = th.i + 1]
           ELSE threads' = [threads EXCEPT ![t] = Returned("create_exchange", th.data, FALSE)]
    /\ UNCHANGED <<seq_vars, valid_vars, fn_vars, net_vars>>

\* create_exchange, lines 56-63: the last block is read and hashed
ExchangeHash(t) ==
    /\ threads[t].pc = "ex_hash"
    /\ LET th == threads[t]
       IN  threads' = [threads EXCEPT ![t] =
               [pc |-> "ex_header", data |-> th.data, book |-> th.book,
                previous_hash |-> exchange_previous_hash(library[th.book])]]
    /\ UNCHANGED <<seq_vars, valid_vars, fn_vars, net_vars>>

\* new_block, lines 54-62: the length of the chain is read, the block is built
ExchangeHeader(t) ==
    /\ threads[t].pc = "ex_header"
    /\ \E now \in Timestamps :
           LET th == threads[t]
           IN  threads' = [threads EXCEPT ![t] =
                   [pc |-> "ex_append", data |-> th.data, book |-> th.book,
                    block |-> Merge(new_block_header(library[th.book], th.previous_hash, now),
                                    exchange_payload(th.data))]]
    /\ UNCHANGED <<seq_vars, valid_vars, fn_vars, net_vars>>

\* new_block, lines 64-65, and create_exchange, line 65
ExchangeAppend(t) ==
    /\ threads[t].pc = "ex_append"
    /\ LET th == threads[t]
       IN  /\ library' = [library EXCEPT ![th.book] = new_block_append(@, th.block)]
           /\ threads' = [threads EXCEPT ![t] = Returned("create_exchange", th.data, TRUE)]
    /\ UNCHANGED <<call, valid_vars, fn_vars, net_vars>>

NextConc ==
    \E t \in ThreadIds :
        \/ StartAddBook(t)
        \/ AddBookLoop(t)
        \/ AddBookAppend(t)
        \/ StartExchange(t)
        \/ ExchangeLoop(t)
        \/ ExchangeHash(t)
        \/ ExchangeHeader(t)
        \/ ExchangeAppend(t)

SpecConc == Init /\ [][NextConc]_vars

\* ------------------------------------------------------ Chain.valid_chain
\* valid_chain is applied to block sequences the code built (the empty list,
\* chains of a genesis block and transfers), as built or with fields of their
\* blocks changed after the fact.

\* valid_chain_mismatch gone wrong: the comparison never reports.
valid_chain_mismatch_never(block, last_block_) == FALSE

\* valid_chain, lines 122-123
valid_chain_mismatch(block, last_block_) ==
    Item(block, "previous_hash") # hash(last_block_)

\* what a call returns, <<"return", value>>, or raises, <<"raise", exception>>
Return(value) == <<"return", value>>

Raise(exception) == <<"raise", exception>>

GenesisChains ==
    {Chain_init("book-1", Some(p), Absent, now).self.chain : p \in GenesisPayloads, now \in Timestamps}

\* the values a field of a block is changed to
FieldValues(chain, key) ==
    CASE key = "index" -> 0..(Len(chain) + 1)
      [] key = "previous_hash" -> {GENESIS_SENTINEL} \cup {hash(chain[i]) : i \in DOMAIN chain}
      [] key = "timestamp" -> Timestamps \cup {LaterTimestamp}
      [] key \in {"sender", "recipient"} -> Addrs \cup {None}
      [] key = "pubkey" -> {public_key(k) : k \in PrivKeys}
      [] key = "txsig" -> {sign(k, AUTH_MESSAGE) : k \in PrivKeys}

\* block[key] = value
SetItem(block, key, value) ==
    [i \in DOMAIN block |-> IF block[i][1] = key THEN <<key, value>> ELSE block[i]]

InitValid ==
    /\ library = <<>>
    /\ call = NoCall
    /\ threads = [t \in ThreadIds |-> IdleThread]
    /\ v_pc = "build"
    /\ v_chain \in {<<>>} \cup GenesisChains
    /\ v_orig = v_chain
    /\ v_last_block = <<>>
    /\ v_current_index = 0
    /\ v_mutations = 0
    /\ v_ret = <<>>
    /\ NoFunction
    /\ NoPeerBooks

\* the sequence grows by a transfer, as create_exchange appends it
VExtend ==
    /\ v_pc = "build"
    /\ v_mutations = 0
    /\ Len(v_chain) >= 1
    /\ Len(v_chain) < MaxChainLen
    /\ \E data \in ConcExchangeInputs, now \in Timestamps :
           LET r == create_exchange(<<[id |-> data.book_id, chain |-> v_chain]>>, data, now)
           IN  /\ r.ret
               /\ v_chain' = r.library[1].chain
               /\ v_orig' = r.library[1].chain
    /\ UNCHANGED <<seq_vars, conc_vars, fn_vars, net_vars, v_pc, v_last_block, v_current_index, v_mutations, v_ret>>

\* a field of a block is given another value after the block was appended
VMutate ==
    /\ v_pc = "build"
    /\ v_mutations < MaxMutations
    /\ \E j \in DOMAIN v_chain :
           \E key \in Keys(v_chain[j]) :
               \E value \in FieldValues(v_chain, key) \ {Item(v_chain[j], key)} :
                   v_chain' = [v_chain EXCEPT ![j] = SetItem(@, key, value)]
    /\ v_mutations' = v_mutations + 1
    /\ UNCHANGED <<seq_vars, conc_vars, fn_vars, net_vars, v_pc, v_orig, v_last_block, v_current_index, v_ret>>

\* valid_chain, lines 115-116: chain[0] raises IndexError on the empty list
VCall ==
    /\ v_pc = "build"
    /\ IF Len(v_chain) = 0
       THEN /\ v_pc' = "done"
            /\ v_ret' = Raise("IndexError")
            /\ UNCHANGED <<v_last_block, v_current_index>>
       ELSE /\ v_pc' = "loop"
            /\ v_last_block' = v_chain[1]
            /\ v_current_index' = 1
            /\ UNCHANGED v_ret
    /\ UNCHANGED <<seq_vars, conc_vars, fn_vars, net_vars, v_chain, v_orig, v_mutations>>

\* valid_chain, lines 118-129: one turn of the loop, or the return after it
VLoop ==
    /\ v_pc = "loop"
    /\ IF v_current_index < Len(v_chain)
       THEN LET block == v_chain[v_current_index + 1]
            IN  IF valid_chain_mismatch(block, v_last_block)
                THEN /\ v_pc' = "done"
                     /\ v_ret' = Return(FALSE)
                     /\ UNCHANGED <<v_last_block, v_current_index>>
                ELSE /\ v_last_block' = block
                     /\ v_current_index' = v_current_index + 1
                     /\ UNCHANGED <<v_pc, v_ret>>
       ELSE /\ v_pc' = "done"
            /\ v_ret' = Return(TRUE)
            /\ UNCHANGED <<v_last_block, v_current_index>>
    /\ UNCHANGED <<seq_vars, conc_vars, fn_vars, net_vars, v_chain, v_orig, v_mutations>>

NextValid == VExtend \/ VMutate \/ VCall \/ VLoop

SpecValid == InitValid /\ [][NextValid]_vars

\* ---------------------------------------------------------------- claims

Linked(chain) ==
    /\ Item(chain[1], "previous_hash") = GENESIS_SENTINEL
    /\ \A i \in 2..Len(chain) : Item(chain[i], "previous_hash") = hash(chain[i - 1])

IsExchange(op_call) == op_call.op = "create_exchange"

\* the position in the Library of the chain a request names, 0 if there is none
Target(library_, data) == fetch_book(library_, data.book_id)

\* C2: a create_exchange call that appends a block had the holder
\* (last_block.recipient) of the chain as its sender and leaves its recipient
\* as the holder; and the call after a successful transfer, on the same chain
\* with the same sender, fails and appends nothing.
C2_CustodyTransfer ==
    [][/\ (IsExchange(call') /\ library' # library) =>
              LET b == Target(library, call'.arg)
              IN  /\ b # 0
                  /\ call'.ret
                  /\ Get(last_block(library[b]), "recipient") = call'.arg.sender
                  /\ Get(last_block(library'[b]), "recipient") = call'.arg.recipient
       /\ (/\ IsExchange(call) /\ call.ret
           /\ IsExchange(call')
           /\ call'.arg.book_id = call.arg.book_id
           /\ call'.arg.sender = call.arg.sender) =>
              (~call'.ret /\ library' = library)]_vars

\* a transfer A->C was refused on a chain whose last block is a transfer A->B
C2_Witness ==
    /\ IsExchange(call) /\ ~call.ret
    /\ \E b \in DOMAIN library :
           /\ library[b].id = call.arg.book_id
           /\ Len(library[b].chain) >= 2
           /\ Item(last_block(library[b]), "sender") = call.arg.sender
           /\ Item(last_block(library[b]), "recipient") # call.arg.recipient
           /\ call.arg.sender # call.arg.recipient

\* C3: no block is appended for a transfer whose signature does not verify:
\* every block a transfer appended carries a pubkey and a signature that
\* verify_block accepts.
C3_SignatureVerified ==
    \A b \in DOMAIN library :
        \A k \in 2..Len(library[b].chain) : verify_block(library[b].chain[k])

\* C4: with requests served concurrently, of two transfers from the same
\* holder at most one appends: no chain has two consecutive blocks with the
\* same sender.
C4_NoLostUpdate ==
    \A b \in DOMAIN library :
        \A k \in 1..(Len(library[b].chain) - 1) :
            Get(library[b].chain[k], "sender") # Get(library[b].chain[k + 1], "sender")

\* C5: a create_exchange call whose sender is not last_block.recipient of the
\* chain it names returns False and leaves every chain of the Library as it was.
C5_NotHolderRefused ==
    [][(/\ IsExchange(call')
        /\ Target(library, call'.arg) # 0
        /\ Get(last_block(library[Target(library, call'.arg)]), "recipient") # call'.arg.sender)
           => (~call'.ret /\ library' = library)]_vars

\* a transfer between two other parties was refused while the Library held
\* two chains, one of them with a transfer in it
C5_Witness ==
    /\ IsExchange(call) /\ ~call.ret
    /\ call.arg.sender # call.arg.recipient
    /\ Len(library) = 2
    /\ \E b \in DOMAIN library :
           /\ library[b].id = call.arg.book_id
           /\ Len(library[b].chain) = 2
           /\ Get(last_block(library[b]), "recipient") # call.arg.sender
           /\ Get(library[b].chain[1], "recipient") = call.arg.sender

\* C6: a create_exchange call with sender = recipient returns False and leaves
\* every chain as it was, whatever the Library holds.
C6_SelfTransferRefused ==
    [][(IsExchange(call') /\ call'.arg.sender = call'.arg.recipient)
           => (~call'.ret /\ library' = library)]_vars

\* the holder of a chain asked to transfer it to itself
C6_Witness ==
    /\ IsExchange(call) /\ ~call.ret
    /\ call.arg.sender = call.arg.recipient
    /\ \E b \in DOMAIN library :
           /\ library[b].id = call.arg.book_id
           /\ Get(last_block(library[b]), "recipient") = call.arg.sender

HasId(library_, id) == \E i \in DOMAIN library_ : library_[i].id = id

\* C7: add_book with an id the Library does not hold appends the chain and
\* returns True; with an id it holds it returns False and leaves the Library,
\* the chain already registered included, as it was.
C7_AddBookOnce ==
    [][call'.op = "add_book" =>
           IF HasId(library, call'.arg.id)
           THEN ~call'.ret /\ library' = library
           ELSE call'.ret /\ library' = Append(library, call'.arg)]_vars

\* a chain was refused whose id is held by another chain, one with a transfer
C7_Witness ==
    /\ call.op = "add_book" /\ ~call.ret
    /\ \E b \in DOMAIN library :
           /\ library[b].id = call.arg.id
           /\ library[b].chain # call.arg.chain
           /\ Len(library[b].chain) >= 2

IsPrefix(s, t) == Len(s) <= Len(t) /\ \A i \in 1..Len(s) : s[i] = t[i]

\* C8: every step leaves every chain of the Library in place, with the blocks
\* it had as a prefix of the blocks it has; a chain that changes gained
\* exactly one block, in a create_exchange call that returned True.
C8_AppendOnly ==
    [][\A b \in DOMAIN library :
           /\ b \in DOMAIN library'
           /\ library'[b].id = library[b].id
           /\ IsPrefix(library[b].chain, library'[b].chain)
           /\ library'[b].chain # library[b].chain =>
                  /\ Len(library'[b].chain) = Len(library[b].chain) + 1
                  /\ IsExchange(call') /\ call'.ret]_vars

\* a second block was appended to a chain
C8_Witness ==
    /\ IsExchange(call) /\ call.ret
    /\ \E b \in DOMAIN library :
           /\ library[b].id = call.arg.book_id
           /\ Len(library[b].chain) = 3
           /\ Item(library[b].chain[3], "index") = 3

\* C[i].previous_hash == hash(C[i-1]) for every i > 0, i counted from 0
AllLinked(chain) ==
    \A i \in 1..(Len(chain) - 1) : Item(chain[i + 1], "previous_hash") = hash(chain[i])

\* the least i > 0, counted from 0, with C[i].previous_hash != hash(C[i-1])
FirstMismatch(chain) ==
    CHOOSE i \in 1..(Len(chain) - 1) :
        /\ Item(chain[i + 1], "previous_hash") # hash(chain[i])
        /\ \A j \in 1..(i - 1) : Item(chain[j + 1], "previous_hash") = hash(chain[j])

\* the sequence differs from the one the code built in block C[i-1] alone,
\* for some i > 0 that is an index of the sequence
OneBlockMutated(chain, orig) ==
    \E j \in 1..(Len(chain) - 1) :
        /\ chain[j] # orig[j]
        /\ \A k \in DOMAIN chain : k # j => chain[k] = orig[k]

Validated == v_pc = "done" /\ Len(v_chain) > 0

C10_TrivialChainsValid ==
    (v_pc = "done" /\ Len(v_chain) <= 1) => (v_ret[1] = "return" /\ v_ret[2] = TRUE)

\* --------------------------------------------------- duplicate delivery

\* C11: a create_exchange call that repeats the request of the call just
\* before it, which succeeded, appends no block and reports success as that
\* call did, instead of a failure.
C11_DuplicateIdempotent ==
    [][(IsExchange(call) /\ call.ret /\ IsExchange(call') /\ call'.arg = call.arg)
          => (library' = library /\ call'.ret)]_vars

\* ------------------------------------------------------ unknown item id

\* C12: a create_exchange call naming an id the Library holds no chain for
\* returns False, without raising, and leaves the Library as it was: no chain
\* is created and no chain gains a block.
C12_UnknownIdRefused ==
    [][(IsExchange(call') /\ Target(library, call'.arg) = 0)
          => (~call'.ret /\ ~call'.raised /\ library' = library)]_vars

\* a well-formed transfer from the holder of a registered chain was refused
\* because the id it names is not registered
C12_Witness ==
    /\ IsExchange(call)
    /\ ~call.ret
    /\ ~is_self_transfer(call.arg)
    /\ Target(library, call.arg) = 0
    /\ \E b \in DOMAIN library : exchange_holder(library[b]) = call.arg.sender

\* ---------------------------------------------------- Chain(), on its own

\* the dicts a caller passes as `data`: the custody fields, either of them
\* present or not, in either order
ChainPayloads ==
    {<<>>}
        \cup {<< <<"sender", s>> >> : s \in Addrs \cup {None}}
        \cup {<< <<"recipient", r>> >> : r \in Addrs}
        \cup {<< <<"sender", s>>, <<"recipient", r>> >> : s \in Addrs \cup {None}, r \in Addrs}
        \cup {<< <<"recipient", r>>, <<"sender", s>> >> : s \in Addrs \cup {None}, r \in Addrs}

\* Chain(id=id, data=data) at the time `now`; data=None is the default
ChainInputs ==
    [id : Ids,
     data : {Absent} \cup {Some(p) : p \in ChainPayloads},
     now : Timestamps \cup {LaterTimestamp}]

InitChain ==
    /\ library = <<>>
    /\ call = NoCall
    /\ threads = [t \in ThreadIds |-> IdleThread]
    /\ IdleValidator
    /\ NoPeerBooks
    /\ f_in \in ChainInputs
    /\ f_out = <<>>

\* the constructor runs: it returns the Chain or new_block raises in it
ChainCall ==
    /\ f_out = <<>>
    /\ f_out' = LET made == Chain_init(f_in.id, f_in.data, Absent, f_in.now)
                IN  IF made.raised THEN Raise("UnboundLocalError") ELSE Return(made.self)
    /\ UNCHANGED <<f_in, seq_vars, conc_vars, valid_vars, net_vars>>

NextChain == ChainCall

SpecChain == InitChain /\ [][NextChain]_vars

\* C13: for every payload, the empty and the absent one included, Chain()
\* returns a chain of exactly one block, whose previous_hash is the sentinel
\* and whose other fields beside the header's are the payload's, with its
\* values.
C13_GenesisForEveryPayload ==
    f_out # <<>> =>
        /\ f_out[1] = "return"
        /\ LET chain == f_out[2].chain
               payload == IF f_in.data = Absent THEN <<>> ELSE f_in.data[1]
           IN  /\ Len(chain) = 1
               /\ Item(chain[1], "previous_hash") = GENESIS_SENTINEL
               /\ Keys(chain[1]) = {"index", "previous_hash", "timestamp"} \cup Keys(payload)
               /\ \A i \in DOMAIN payload : Item(chain[1], payload[i][1]) = payload[i][2]

\* --------------------------------------------------------- block indices

\* C14: in every reachable state the index of every block of every chain is
\* its position in the chain, counted from 1; so an appended block's index is
\* one more than that of the block before it and no two blocks of a chain
\* share an index.
C14_IndexIsPosition ==
    \A b \in DOMAIN library :
        \A k \in DOMAIN library[b].chain : Item(library[b].chain[k], "index") = k

\* ------------------------------------------ Node.verify_block, on its own

\* a string that is not a sequence of hexadecimal digit pairs
NotHex == <<"not hex">>

\* the hexadecimal form of bytes that are neither a DER public key nor a
\* DER signature
NotDer == <<"hex", "00">>

\* a message other than the one a transfer's signature is made over
OtherMessage == "I have authorized nothing."

\* bytes.fromhex(value) returns: it raises ValueError otherwise
is_hex(value) == value # NotHex

\* serialization.load_der_public_key(data) returns: it raises ValueError
\* otherwise
is_der_public_key(data) == \E priv \in PrivKeys : data = public_key(priv)

\* Node.verify_block, with what it raises: the two fields are read and parsed
\* before the try block, the signature is verified within it
verify_block_call(block) ==
    IF "txsig" \notin Keys(block) THEN Raise("KeyError")
    ELSE IF ~is_hex(Item(block, "txsig")) THEN Raise("ValueError")
    ELSE IF "pubkey" \notin Keys(block) THEN Raise("KeyError")
    ELSE IF ~is_hex(Item(block, "pubkey")) THEN Raise("ValueError")
    ELSE IF ~is_der_public_key(Item(block, "pubkey")) THEN Raise("ValueError")
    ELSE Return(verify_block(block))

\* the blocks verify_block is given: a sender, and the two fields each well
\* formed, malformed or missing
VerifyInputs ==
    LET pubkeys == {public_key(k) : k \in PrivKeys} \cup {NotHex, NotDer}
        txsigs == {sign(k, AUTH_MESSAGE) : k \in PrivKeys}
                      \cup {sign(k, OtherMessage) : k \in Signers} \cup {NotHex, NotDer}
    IN  {<< <<"sender", s>> >> \o pubkey \o txsig :
             s \in Addrs,
             pubkey \in {<<>>} \cup {<< <<"pubkey", v>> >> : v \in pubkeys},
             txsig \in {<<>>} \cup {<< <<"txsig", v>> >> : v \in txsigs}}

InitVerify ==
    /\ library = <<>>
    /\ call = NoCall
    /\ threads = [t \in ThreadIds |-> IdleThread]
    /\ IdleValidator
    /\ NoPeerBooks
    /\ f_in \in VerifyInputs
    /\ f_out = <<>>

VerifyCall ==
    /\ f_out = <<>>
    /\ f_out' = verify_block_call(f_in)
    /\ UNCHANGED <<f_in, seq_vars, conc_vars, valid_vars, net_vars>>

NextVerify == VerifyCall

SpecVerify == InitVerify /\ [][NextVerify]_vars

\* the block has both fields, and its signature is one made over the fixed
\* message with the private key of its public key
SignatureVerifies(block) ==
    /\ {"pubkey", "txsig"} \subseteq Keys(block)
    /\ verify(Item(block, "pubkey"), Item(block, "txsig"), AUTH_MESSAGE)

\* C15: verify_block returns for every block, a block with a malformed or
\* missing pubkey or txsig included, and never raises; it returns True only
\* for a block whose signature verifies, and False for every other.
C15_VerifyTotal ==
    f_out # <<>> => (f_out[1] = "return" /\ f_out[2] = SignatureVerifies(f_in))

\* ------------------------------------------------- Chain.hash, on its own

\* the blocks new_block builds: the genesis blocks, and the transfers
\* create_exchange appends to a chain the node created
HashBlocks ==
    LET made == {Chain_init("book-1", Some(p), Absent, now).self :
                     p \in GenesisPayloads, now \in Timestamps \cup {LaterTimestamp}}
        sent == {create_exchange(<<self>>, d, LaterTimestamp) :
                     self \in ConcNewBooks, d \in ConcExchangeInputs}
    IN  {self.chain[1] : self \in made}
            \cup {last_block(r.library[1]) : r \in {s \in sent : s.ret}}

\* the orders the fields of a dict can be inserted in: the keys a block can
\* have, permuted
InsertionOrders(keys) == {[i \in DOMAIN keys |-> keys[p[i]]] : p \in Permutations(DOMAIN keys)}

\* the dict with the items of `block`, inserted in the given order of keys
Inserted(block, order) ==
    LET present == SelectSeq(order, LAMBDA k : k \in Keys(block))
    IN  [i \in 1..Len(present) |-> <<present[i], Item(block, present[i])>>]

\* a block as new_block built it, and a dict of the same fields, with the
\* same or with other values, built in any order
InitHash ==
    /\ library = <<>>
    /\ call = NoCall
    /\ threads = [t \in ThreadIds |-> IdleThread]
    /\ IdleValidator
    /\ NoPeerBooks
    /\ \E block \in HashBlocks, order \in InsertionOrders(KeyOrder) :
           \E other \in {o \in HashBlocks : Keys(o) = Keys(block)} :
               f_in = <<block, Inserted(other, order)>>
    /\ f_out = <<>>

\* Chain.hash is called on each of the two dicts
HashCall ==
    /\ f_out = <<>>
    /\ f_out' = <<hash(f_in[1]), hash(f_in[2])>>
    /\ UNCHANGED <<f_in, seq_vars, conc_vars, valid_vars, net_vars>>

NextHash == HashCall

SpecHash == InitHash /\ [][NextHash]_vars

\* the two dicts have the same keys, each with the same value
SameItems(d, e) == Keys(d) = Keys(e) /\ \A k \in Keys(d) : Item(d, k) = Item(e, k)

\* C16: two blocks with the same field/value pairs have the same digest, in
\* whatever order their fields were inserted.
C16_HashOrderIndependent ==
    (f_out # <<>> /\ SameItems(f_in[1], f_in[2])) => f_out[1] = f_out[2]

\* a transfer block and the same fields inserted in another order were hashed
C16_Witness ==
    /\ f_out # <<>>
    /\ SameItems(f_in[1], f_in[2])
    /\ f_in[1] # f_in[2]
    /\ "txsig" \in Keys(f_in[1])
    /\ f_out[1] = f_out[2]

\* ---------------------------------------------------- unique registry ids

\* C17: in every reachable state, requests interleaved as the server runs
\* them, no two chains of the Library have the same id, and no two add_book
\* calls for the same id have both returned True.
C17_UniqueIds ==
    /\ \A i, j \in DOMAIN library : library[i].id = library[j].id => i = j
    /\ \A t, u \in ThreadIds :
           (/\ threads[t].pc = "done" /\ threads[t].op = "add_book" /\ threads[t].ret
            /\ threads[u].pc = "done" /\ threads[u].op = "add_book" /\ threads[u].ret
            /\ threads[t].arg.id = threads[u].arg.id) => t = u

\* ------------------------------------------------------ custody continuity

\* C18: in every state reached by add_book and create_exchange calls made one
\* after the other, every block after the first of every chain has the
\* recipient of the block before it as its sender, and a recipient other than
\* its sender.
C18_CustodyContinuity ==
    \A b \in DOMAIN library :
        \A k \in 2..Len(library[b].chain) :
            LET block == library[b].chain[k]
                before == library[b].chain[k - 1]
            IN  /\ Get(block, "sender") = Get(before, "recipient")
                /\ Get(block, "sender") # Get(block, "recipient")

\* a chain has passed through two transfers
C18_Witness ==
    \E b \in DOMAIN library :
        /\ Len(library[b].chain) = 3
        /\ Get(library[b].chain[2], "recipient") = Get(library[b].chain[3], "sender")
        /\ Get(library[b].chain[3], "recipient") # Get(library[b].chain[1], "recipient")

\* ------------------------------------------------------ chain independence

\* C19: a create_exchange call for the id X, whatever it returns, leaves the
\* chains of every other id as they were and the ids of the Library as they
\* were; when it returns True exactly one chain gained exactly one block, and
\* that chain has the id X.
C19_ChainIndependence ==
    [][IsExchange(call') =>
          LET X == call'.arg.book_id
              grown == {i \in DOMAIN library : library'[i] # library[i]}
          IN  /\ DOMAIN library' = DOMAIN library
              /\ \A i \in DOMAIN library : library'[i].id = library[i].id
              /\ \A i \in DOMAIN library : library[i].id # X => library'[i] = library[i]
              /\ call'.ret =>
                     /\ Cardinality(grown) = 1
                     /\ \A i \in grown :
                            /\ library[i].id = X
                            /\ library'[i].chain = Append(library[i].chain, last_block(library'[i]))]_vars

\* a transfer has succeeded on one chain of a Library that holds a chain with
\* another id too
C19_Witness ==
    /\ IsExchange(call)
    /\ call.ret
    /\ \E i, j \in DOMAIN library :
           /\ library[i].id = call.arg.book_id
           /\ Len(library[i].chain) > 1
           /\ library[j].id # call.arg.book_id

\* ------------------------------------------- the node and its neighbour
\* The node has registered one neighbour before any book is created. Its
\* handlers new_book and new_transaction run on the threads of the server, as
\* above, and post what they did to the neighbour: requests.post returns when
\* the neighbour has handled the request, so every post is delivered once, in
\* the order the posts are made. The neighbour serves these posts only.

\* the clock of the neighbour, which need not agree with the node's
PeerClock == Timestamps \cup {LaterTimestamp}

\* the handler a thread ran last has nothing left to post
NothingToPost(t) == ~(threads[t].pc = "done" /\ threads[t].ret)

\* app.new_book, lines 28-38
NetStartAddBook(t) == NothingToPost(t) /\ StartAddBook(t)

\* app.new_book, lines 40-45, and the neighbour's app.broadcast_book: the
\* chain's last block is posted as the genesis block of the neighbour's chain
PostBook(t) ==
    /\ threads[t].pc = "done" /\ threads[t].op = "add_book" /\ threads[t].ret
    /\ \E now \in PeerClock :
           LET req == last_block(library[threads[t].book])
               book == Chain_init(threads[t].arg.id, Absent, Some(req), now).self
           IN  peer_library' = add_book(peer_library, book).library
    /\ threads' = [threads EXCEPT ![t] = IdleThread]
    /\ UNCHANGED <<seq_vars, valid_vars, fn_vars>>

\* app.new_transaction, lines 98-110: the sender is the node's own address,
\* which the books it created are held by
NetStartExchange(t) ==
    /\ NothingToPost(t)
    /\ StartExchange(t)
    /\ \A th \in {threads'[t]} :
           IF th.pc = "ex_loop" THEN th.data.sender = "A" ELSE th.arg.sender = "A"

\* app.new_transaction, lines 112-115, and the neighbour's
\* app.broadcast_block: the request data is posted and the neighbour applies it
PostBlock(t) ==
    /\ threads[t].pc = "done" /\ threads[t].op = "create_exchange" /\ threads[t].ret
    /\ \E now \in PeerClock :
           peer_library' = create_exchange(peer_library, threads[t].arg, now).library
    /\ threads' = [threads EXCEPT ![t] = IdleThread]
    /\ UNCHANGED <<seq_vars, valid_vars, fn_vars>>

NextNet ==
    \E t \in ThreadIds :
        \/ NetStartAddBook(t)
        \/ AddBookLoop(t)
        \/ AddBookAppend(t)
        \/ PostBook(t)
        \/ NetStartExchange(t)
        \/ ExchangeLoop(t)
        \/ ExchangeHash(t)
        \/ ExchangeHeader(t)
        \/ ExchangeAppend(t)
        \/ PostBlock(t)

SpecNet == Init /\ [][NextNet]_vars

\* no handler of the node has a post to its neighbour still to make
AllDelivered == \A t \in ThreadIds : NothingToPost(t)

\* the (sender, recipient) pairs of the blocks of a chain, in order
Pairs(chain) ==
    [k \in DOMAIN chain |-> <<Get(chain[k], "sender"), Get(chain[k], "recipient")>>]

\* C20: the neighbour registered before any book was created, and every post
\* delivered once and in the order made: once all posts are delivered, the
\* neighbour holds a chain for every book of the node, of the same length,
\* with the same (sender, recipient) pairs in the same order and so the same
\* holder.
C20_ReplicaAgreement ==
    AllDelivered =>
        \A b \in DOMAIN library :
            LET mine == library[fetch_book(library, library[b].id)]
                p == fetch_book(peer_library, library[b].id)
            IN  /\ p # 0
                /\ Len(peer_library[p].chain) = Len(mine.chain)
                /\ Pairs(peer_library[p].chain) = Pairs(mine.chain)
                /\ exchange_holder(peer_library[p]) = exchange_holder(mine)

====
